---------------------------- MODULE Spec2Model ----------------------------
(***************************************************************************)
(* Model of f1_silverstone25_analysis.py: the batch pipeline               *)
(*   calculate_tire_adjusted_times -> analyze_segment_performance          *)
(*   -> generate_performance_summary -> print_results                      *)
(* run on one lap table.                                                   *)
(*                                                                         *)
(* Numbers.  The program computes in Python and numpy floats (IEEE-754     *)
(* binary64, round to nearest, ties to even).  A float is modelled         *)
(* exactly, as a sign, a significand of 53 bits and a binary exponent:     *)
(* value = mant * 2^exp.  The significand is a natural number written in   *)
(* 20-bit limbs, least limb first, because it needs more than the 32 bits  *)
(* of a TLC integer.  Every operation computes the exact result as a wide  *)
(* integer and rounds it to 53 significant bits.  The exponent is not      *)
(* bounded: the program's values (lap times, their sums, means and         *)
(* differences) stay far from the overflow and subnormal ranges.  The      *)
(* program never produces -0.0 where its sign could be observed, and the   *)
(* model has one zero.                                                     *)
(*                                                                         *)
(* Lap times enter as whole milliseconds (the timing resolution of the     *)
(* LapTime timedelta column).                                              *)
(***************************************************************************)
EXTENDS Integers, Sequences, FiniteSets

(***************************************************************************)
(* Natural numbers below 2^120 in six 20-bit limbs <<l0, ..., l5>>.        *)
(***************************************************************************)
\* the width of a limb
LimbBits == 20
Base == 2^LimbBits
BZero == <<0, 0, 0, 0, 0, 0>>
BOne == <<1, 0, 0, 0, 0, 0>>

\* a TLC integer 0 <= n < 2^31 as a wide number
BFromInt(n) == <<n % Base, n \div Base, 0, 0, 0, 0>>

BAdd(a, b) ==
    LET s1 == a[1] + b[1]
        s2 == a[2] + b[2] + (s1 \div Base)
        s3 == a[3] + b[3] + (s2 \div Base)
        s4 == a[4] + b[4] + (s3 \div Base)
        s5 == a[5] + b[5] + (s4 \div Base)
        s6 == a[6] + b[6] + (s5 \div Base)
    IN  <<s1 % Base, s2 % Base, s3 % Base, s4 % Base, s5 % Base, s6>>

\* a - b, for a >= b
BSub(a, b) ==
    LET d1 == a[1] - b[1]
        w1 == IF d1 < 0 THEN 1 ELSE 0
        d2 == a[2] - b[2] - w1
        w2 == IF d2 < 0 THEN 1 ELSE 0
        d3 == a[3] - b[3] - w2
        w3 == IF d3 < 0 THEN 1 ELSE 0
        d4 == a[4] - b[4] - w3
        w4 == IF d4 < 0 THEN 1 ELSE 0
        d5 == a[5] - b[5] - w4
        w5 == IF d5 < 0 THEN 1 ELSE 0
        d6 == a[6] - b[6] - w5
    IN  <<d1 + w1 * Base, d2 + w2 * Base, d3 + w3 * Base, d4 + w4 * Base,
          d5 + w5 * Base, d6>>

BLess(a, b) ==
    IF a[6] # b[6] THEN a[6] < b[6]
    ELSE IF a[5] # b[5] THEN a[5] < b[5]
    ELSE IF a[4] # b[4] THEN a[4] < b[4]
    ELSE IF a[3] # b[3] THEN a[3] < b[3]
    ELSE IF a[2] # b[2] THEN a[2] < b[2]
    ELSE a[1] < b[1]

\* a * n, for 0 <= n < 2^11
BMulSmall(a, n) ==
    LET t1 == a[1] * n
        t2 == a[2] * n + (t1 \div Base)
        t3 == a[3] * n + (t2 \div Base)
        t4 == a[4] * n + (t3 \div Base)
        t5 == a[5] * n + (t4 \div Base)
        t6 == a[6] * n + (t5 \div Base)
    IN  <<t1 % Base, t2 % Base, t3 % Base, t4 % Base, t5 % Base, t6>>

\* floor(a / n) and a mod n, for 0 < n < 2^11
BDivSmall(a, n) ==
    LET t6 == a[6]
        t5 == (t6 % n) * Base + a[5]
        t4 == (t5 % n) * Base + a[4]
        t3 == (t4 % n) * Base + a[3]
        t2 == (t3 % n) * Base + a[2]
        t1 == (t2 % n) * Base + a[1]
    IN  [q |-> <<t1 \div n, t2 \div n, t3 \div n, t4 \div n, t5 \div n,
                 t6 \div n>>,
         r |-> t1 % n]

\* limb j of a (1-based), 0 outside the number
Limb(a, j) == IF j >= 1 /\ j <= 6 THEN a[j] ELSE 0

\* a * 2^k, for k >= 0 and a * 2^k < 2^120
BShl(a, k) ==
    LET q == k \div LimbBits
        r == k % LimbBits
        piece(i) == (Limb(a, i - q) % 2^(LimbBits - r)) * 2^r
                        + (Limb(a, i - q - 1) \div 2^(LimbBits - r))
    IN  <<piece(1), piece(2), piece(3), piece(4), piece(5), piece(6)>>

\* floor(a / 2^k), for k >= 0
BShr(a, k) ==
    LET q == k \div LimbBits
        r == k % LimbBits
        piece(i) == (Limb(a, i + q) \div 2^r)
                        + (Limb(a, i + q + 1) % 2^r) * 2^(LimbBits - r)
    IN  <<piece(1), piece(2), piece(3), piece(4), piece(5), piece(6)>>

\* the number of bits of a TLC integer 0 <= x < 2^31
BitLenInt(x) ==
    IF x = 0 THEN 0 ELSE CHOOSE k \in 1..31 : (x \div 2^(k - 1)) = 1

BitLen(a) ==
    IF a[6] # 0 THEN 5 * LimbBits + BitLenInt(a[6])
    ELSE IF a[5] # 0 THEN 4 * LimbBits + BitLenInt(a[5])
    ELSE IF a[4] # 0 THEN 3 * LimbBits + BitLenInt(a[4])
    ELSE IF a[3] # 0 THEN 2 * LimbBits + BitLenInt(a[3])
    ELSE IF a[2] # 0 THEN LimbBits + BitLenInt(a[2])
    ELSE BitLenInt(a[1])

(***************************************************************************)
(* Floats: [neg |-> BOOLEAN, mant |-> <<m0, m1, m2>>, exp |-> Int], the    *)
(* value (-1)^neg * mant * 2^exp with 2^52 <= mant < 2^53, or mant = 0.    *)
(***************************************************************************)
\* the significand of a binary64 number has 53 bits
SigBits == 53

FZero == [neg |-> FALSE, mant |-> <<0, 0, 0>>, exp |-> 0]
IsZero(x) == x.mant = <<0, 0, 0>>

\* the significand as a wide number
Widen(mant) == <<mant[1], mant[2], mant[3], 0, 0, 0>>

\* the binary64 number nearest to (-1)^neg * a * 2^e for a wide number a,
\* ties to even
RoundNearestEven(neg, a, e) ==
    LET len == BitLen(a) IN
    IF len = 0 THEN FZero
    ELSE IF len <= SigBits
    THEN LET m == BShl(a, SigBits - len)
         IN  [neg |-> neg, mant |-> <<m[1], m[2], m[3]>>,
              exp |-> e - (SigBits - len)]
    ELSE LET k    == len - SigBits
             q    == BShr(a, k)
             low  == BSub(a, BShl(q, k))
             half == BShl(BOne, k - 1)
             up   == \/ BLess(half, low)
                     \/ low = half /\ q[1] % 2 = 1
             m    == IF up THEN BAdd(q, BOne) ELSE q
         IN  IF BitLen(m) > SigBits
             THEN [neg |-> neg, mant |-> <<0, 0, 2^(SigBits - 1 - 2 * LimbBits)>>,
                   exp |-> e + k + 1]
             ELSE [neg |-> neg, mant |-> <<m[1], m[2], m[3]>>, exp |-> e + k]

\* the float of an integer 0 <= n < 2^31 (exact)
FloatOfInt(n) == RoundNearestEven(FALSE, BFromInt(n), 0)

FNeg(x) == IF IsZero(x) THEN x ELSE [x EXCEPT !.neg = ~x.neg]

\* the shift beyond which the smaller operand of a sum is less than a
\* sixteenth of the last place of the larger and leaves it unchanged
AbsorbShift == SigBits + 3

\* x + y
FAdd(x, y) ==
    IF IsZero(x) THEN y
    ELSE IF IsZero(y) THEN x
    ELSE LET hi == IF x.exp >= y.exp THEN x ELSE y
             lo == IF x.exp >= y.exp THEN y ELSE x
             d  == hi.exp - lo.exp
         IN  IF d > AbsorbShift THEN hi
             ELSE LET a == BShl(Widen(hi.mant), d)
                      b == Widen(lo.mant)
                  IN  IF hi.neg = lo.neg
                      THEN RoundNearestEven(hi.neg, BAdd(a, b), lo.exp)
                      ELSE IF BLess(a, b)
                           THEN RoundNearestEven(lo.neg, BSub(b, a), lo.exp)
                           ELSE RoundNearestEven(hi.neg, BSub(a, b), lo.exp)

\* x - y
FSub(x, y) == FAdd(x, FNeg(y))

\* |x| < |y|
MagLess(x, y) ==
    IF IsZero(y) THEN FALSE
    ELSE IF IsZero(x) THEN TRUE
    ELSE IF x.exp # y.exp THEN x.exp < y.exp
    ELSE BLess(Widen(x.mant), Widen(y.mant))

\* x < y
FLess(x, y) ==
    IF x.neg # y.neg THEN x.neg
    ELSE IF x.neg THEN MagLess(y, x) ELSE MagLess(x, y)

\* x <= y
FLeq(x, y) == ~FLess(y, x)

\* n * x for an integer-valued float n (0 <= n < 2^11)
FMulInt(n, x) == RoundNearestEven(x.neg, BMulSmall(Widen(x.mant), n), x.exp)

\* x / n for an integer-valued float n (0 < n < 2^11): the quotient of the
\* significand, scaled to 56 bits or more, with one more low bit that is set
\* when the division left a remainder
FDivInt(x, n) ==
    LET s == BitLenInt(n) + 3
        d == BDivSmall(BShl(Widen(x.mant), s), n)
        q == BAdd(BShl(d.q, 1), IF d.r # 0 THEN BOne ELSE BZero)
    IN  RoundNearestEven(x.neg, q, x.exp - s - 1)

\* the float literal 0.1 = 7205759403792794 * 2^-56
DEGRADATION_RATE == [neg |-> FALSE, mant |-> <<629146, 629145, 6553>>, exp |-> -56]

\* the float literal 0.05 = 7205759403792794 * 2^-57 (print_results)
DisplayThreshold == [neg |-> FALSE, mant |-> <<629146, 629145, 6553>>, exp |-> -57]

\* the float literal 1e-9 = 4835703278458517 * 2^-82
NanosecondsToSeconds == [neg |-> FALSE, mant |-> <<448149, 48770, 4398>>, exp |-> -82]

\* a * n for 0 <= n < 2^21
BMulInt(a, n) ==
    BAdd(BShl(BMulSmall(a, n \div 2^10), 10), BMulSmall(a, n % 2^10))

\* Series.dt.total_seconds() of a timedelta of ms milliseconds (0 <= ms < 2^21),
\* which pandas stores as asi8 = ms * 10^6 nanoseconds.  pandas 2 returns
\* asi8 / 10^9, the float nearest to ms / 1000; pandas 1 returns 1e-9 * asi8,
\* the rounded product with the float literal 1e-9.  The program runs on
\* either.
TotalSeconds(pandas_version, ms) ==
    IF pandas_version = 1
    THEN RoundNearestEven(FALSE,
             BMulSmall(BMulSmall(BMulInt(Widen(NanosecondsToSeconds.mant), ms),
                                 1000), 1000),
             NanosecondsToSeconds.exp)
    ELSE FDivInt(FloatOfInt(ms), 1000)

(***************************************************************************)
(* Configuration (module constants of the program).                        *)
(***************************************************************************)
TIRE_PERFORMANCE ==
    [INTERMEDIATE |-> FloatOfInt(0),
     SOFT         |-> FNeg(FloatOfInt(8)),
     MEDIUM       |-> FNeg(FloatOfInt(6)),
     HARD         |-> FNeg(FloatOfInt(4)),
     WET          |-> FloatOfInt(3)]

MIN_LAPS_FOR_ANALYSIS == 3
OUTLIER_THRESHOLD_MIN == 80
OUTLIER_THRESHOLD_MAX == 200

\* main(): the tracked drivers, in the caller's order
target_drivers == <<"NOR", "PIA", "VER", "HAM", "HUL", "STR">>

\* define_race_segments(): range(1, 16), range(16, 35), range(35, 50)
define_race_segments ==
    << [name |-> "Early Wet Chaos",   laps |-> 1..15,
        description |-> "Formation lap tire decisions, standing water"],
       [name |-> "Heavy Rain Period", laps |-> 16..34,
        description |-> "Safety car periods, maximum spray conditions"],
       [name |-> "Drying Phase",      laps |-> 35..49,
        description |-> "Track evolution, strategic tire transitions"] >>

(***************************************************************************)
(* Values.  A cell of the lap table is << >> when missing (NaT, NaN, None) *)
(* and <<v>> when present.  A lap is                                       *)
(*   [Driver, LapNumber, LapTime (ms), Compound, TyreLife].                *)
(***************************************************************************)
Missing == << >>
Some(v) == <<v>>
notna(cell) == cell # Missing

Range(seq) == {seq[i] : i \in 1..Len(seq)}

\* the columns of the frame built from adjusted_data's dictionaries
AdjustedColumns ==
    {"Driver", "LapNumber", "RawTime", "AdjustedTime", "Compound", "TyreAge",
     "TotalAdjustment"}

\* pd.DataFrame(list of dicts): a frame built from the empty list has no columns
DataFrame(rows) ==
    [columns |-> IF rows = << >> THEN {} ELSE AdjustedColumns, rows |-> rows]

(***************************************************************************)
(* calculate_tire_adjusted_times                                           *)
(***************************************************************************)
\* laps.dropna(subset=['LapTime', 'Compound', 'TyreLife'])
dropna(laps) ==
    SelectSeq(laps, LAMBDA lap : /\ notna(lap.LapTime)
                                 /\ notna(lap.Compound)
                                 /\ notna(lap.TyreLife))

\* mutant: the window excludes its two ends
IsOutlierAtBounds(lap_time) ==
    \/ FLeq(lap_time, FloatOfInt(OUTLIER_THRESHOLD_MIN))
    \/ FLeq(FloatOfInt(OUTLIER_THRESHOLD_MAX), lap_time)

\* lap_time < OUTLIER_THRESHOLD_MIN or lap_time > OUTLIER_THRESHOLD_MAX
IsOutlier(lap_time) ==
    \/ FLess(lap_time, FloatOfInt(OUTLIER_THRESHOLD_MIN))
    \/ FLess(FloatOfInt(OUTLIER_THRESHOLD_MAX), lap_time)

\* TIRE_PERFORMANCE.get(compound, 0)
CompoundAdjustment(compound) ==
    IF compound \in DOMAIN TIRE_PERFORMANCE THEN TIRE_PERFORMANCE[compound]
    ELSE FloatOfInt(0)

\* lap['TyreLife'] * DEGRADATION_RATE
AgePenalty(tyre_life) == FMulInt(tyre_life, DEGRADATION_RATE)

\* compound_adjustment + age_penalty
TotalAdjustment(compound, tyre_life) ==
    FAdd(CompoundAdjustment(compound), AgePenalty(tyre_life))

\* mutant: the adjustment is subtracted
AdjustedTimeSubtracted(lap_time, total_adjustment) ==
    FSub(lap_time, total_adjustment)

\* lap_time + total_adjustment
AdjustedTime(lap_time, total_adjustment) == FAdd(lap_time, total_adjustment)

\* valid_laps['LapTimeSeconds'] = valid_laps['LapTime'].dt.total_seconds()
WithLapTimeSeconds(pandas_version, valid_laps) ==
    [i \in 1..Len(valid_laps) |->
        [Driver         |-> valid_laps[i].Driver,
         LapNumber      |-> valid_laps[i].LapNumber,
         LapTime        |-> valid_laps[i].LapTime,
         Compound       |-> valid_laps[i].Compound,
         TyreLife       |-> valid_laps[i].TyreLife,
         LapTimeSeconds |-> TotalSeconds(pandas_version,
                                         valid_laps[i].LapTime[1])]]

\* the dictionary appended for one kept lap
AdjustedRecord(lap) ==
    LET lap_time         == lap.LapTimeSeconds
        total_adjustment == TotalAdjustment(lap.Compound[1], lap.TyreLife[1])
    IN  [Driver          |-> lap.Driver,
         LapNumber       |-> lap.LapNumber,
         RawTime         |-> lap_time,
         AdjustedTime    |-> AdjustedTime(lap_time, total_adjustment),
         Compound        |-> lap.Compound[1],
         TyreAge         |-> lap.TyreLife[1],
         TotalAdjustment |-> total_adjustment]

\* the loop over valid_laps.iterrows(): outliers are skipped, the rest appended
AdjustedData(valid_laps) ==
    LET kept == SelectSeq(valid_laps, LAMBDA lap : ~IsOutlier(lap.LapTimeSeconds))
    IN  [i \in 1..Len(kept) |-> AdjustedRecord(kept[i])]

calculate_tire_adjusted_times(pandas_version, laps) ==
    DataFrame(AdjustedData(WithLapTimeSeconds(pandas_version, dropna(laps))))

(***************************************************************************)
(* analyze_segment_performance                                             *)
(***************************************************************************)
\* adjusted_df[LapNumber.isin(segment['laps']) & Driver.isin(target_drivers)]
SegmentData(adjusted_df, segment, drivers) ==
    SelectSeq(adjusted_df.rows,
              LAMBDA row : /\ row.LapNumber \in segment.laps
                           /\ row.Driver \in Range(drivers))

\* segment_data[segment_data['Driver'] == driver]
DriverLaps(segment_data, driver) ==
    SelectSeq(segment_data, LAMBDA row : row.Driver = driver)

\* res += a[i] for i = from .. to, in this order
RECURSIVE AddRun(_, _, _, _)
AddRun(res, a, from, to) ==
    IF from > to THEN res ELSE AddRun(FAdd(res, a[from]), a, from + 1, to)

\* one of numpy's eight running sums: a[first] + a[first + 8] + ..., count
\* elements, in this order
RECURSIVE LaneSum(_, _, _)
LaneSum(a, first, count) ==
    IF count = 1 THEN a[first]
    ELSE FAdd(LaneSum(a, first, count - 1), a[first + 8 * (count - 1)])

\* the running sums r[first .. first + count - 1] added by halves:
\* ((r0+r1)+(r2+r3))+((r4+r5)+(r6+r7)) for the eight of them
RECURSIVE HalvesSum(_, _, _)
HalvesSum(r, first, count) ==
    IF count = 1 THEN r[first]
    ELSE FAdd(HalvesSum(r, first, count \div 2),
              HalvesSum(r, first + (count \div 2), count \div 2))

\* numpy sums blocks of up to PW_BLOCKSIZE elements with eight running sums
PW_BLOCKSIZE == 128

\* numpy's pairwise sum of the n elements a[off + 1 .. off + n]: fewer than
\* 8 are added left to right; up to PW_BLOCKSIZE go into eight running sums
\* r[j] that are combined as ((r0+r1)+(r2+r3))+((r4+r5)+(r6+r7)), and the
\* n % 8 last elements are added one by one; more are split in two halves
RECURSIVE PairwiseSum(_, _, _)
PairwiseSum(a, off, n) ==
    IF n < 8 THEN AddRun(FZero, a, off + 1, off + n)
    ELSE IF n <= PW_BLOCKSIZE
    THEN LET m == n - (n % 8)
             r == [j \in 1..8 |-> LaneSum(a, off + j, m \div 8)]
         IN  AddRun(HalvesSum(r, 1, 8), a, off + m + 1, off + n)
    ELSE LET n2 == (n \div 2) - ((n \div 2) % 8)
         IN  FAdd(PairwiseSum(a, off, n2), PairwiseSum(a, off + n2, n - n2))

\* Series.sum() inside mean(): numpy's add.reduce over the column's values
SeriesSum(values) == PairwiseSum(values, 0, Len(values))

\* Series.mean(): the sum divided by the count
SeriesMean(values) == FDivInt(SeriesSum(values), Len(values))

\* the sum inside driver_laps['AdjustedTime'].mean()
SumAdjusted(rows) == SeriesSum([i \in 1..Len(rows) |-> rows[i].AdjustedTime])

\* driver_laps['AdjustedTime'].mean()
MeanAdjusted(rows) == SeriesMean([i \in 1..Len(rows) |-> rows[i].AdjustedTime])

\* driver_laps['AdjustedTime'].min() over the first n rows (n >= 1)
RECURSIVE MinAdjusted(_, _)
MinAdjusted(rows, n) ==
    IF n = 1 THEN rows[1].AdjustedTime
    ELSE LET m == MinAdjusted(rows, n - 1)
         IN  IF FLess(rows[n].AdjustedTime, m) THEN rows[n].AdjustedTime ELSE m

\* performance_metrics (the 'consistency' field, a standard deviation that no
\* later step reads, is left out: it needs a float square root)
PerformanceMetrics(driver, driver_laps) ==
    [driver            |-> driver,
     avg_adjusted_time |-> MeanAdjusted(driver_laps),
     lap_count         |-> Len(driver_laps),
     best_lap          |-> MinAdjusted(driver_laps, Len(driver_laps))]

\* mutant: the threshold is exclusive
QualifiesAbove(driver_laps) == Len(driver_laps) > MIN_LAPS_FOR_ANALYSIS

\* len(driver_laps) >= MIN_LAPS_FOR_ANALYSIS
Qualifies(driver_laps) == Len(driver_laps) >= MIN_LAPS_FOR_ANALYSIS

\* the loop over target_drivers: one record per qualifying driver, in
\* target_drivers order
DriverPerformance(segment_data, drivers) ==
    LET qualifying ==
            SelectSeq(drivers,
                      LAMBDA d : Qualifies(DriverLaps(segment_data, d)))
    IN  [i \in 1..Len(qualifying) |->
            PerformanceMetrics(qualifying[i],
                               DriverLaps(segment_data, qualifying[i]))]

\* mutant: an element also passes the elements of equal key
SortsBeforeOrEqual(x, y) == FLeq(x.avg_adjusted_time, y.avg_adjusted_time)

\* list.sort compares the keys with <: x goes before y only when its key is
\* smaller
SortsBefore(x, y) == FLess(x.avg_adjusted_time, y.avg_adjusted_time)

\* where list.sort puts x among the already sorted xs: after every element
\* whose key is not greater (the sort is stable)
RECURSIVE InsertSorted(_, _)
InsertSorted(xs, x) ==
    IF xs = << >> THEN <<x>>
    ELSE IF SortsBefore(x, xs[Len(xs)])
         THEN Append(InsertSorted(SubSeq(xs, 1, Len(xs) - 1), x), xs[Len(xs)])
         ELSE Append(xs, x)

\* mutant: the list is left in target_drivers order
Unsorted(xs) == xs

\* driver_performance.sort(key=lambda x: x['avg_adjusted_time'])
RECURSIVE SortByAvg(_)
SortByAvg(xs) ==
    IF xs = << >> THEN << >>
    ELSE InsertSorted(SortByAvg(SubSeq(xs, 1, Len(xs) - 1)), xs[Len(xs)])

\* d[key] = value on an insertion-ordered dict kept as a sequence of entries
DictSet(d, key, value) ==
    IF \E i \in 1..Len(d) : d[i].key = key
    THEN [i \in 1..Len(d) |-> IF d[i].key = key
                              THEN [key |-> key, value |-> value] ELSE d[i]]
    ELSE Append(d, [key |-> key, value |-> value])

DictHas(d, key) == \E i \in 1..Len(d) : d[i].key = key
DictGet(d, key) == d[CHOOSE i \in 1..Len(d) : d[i].key = key].value

\* adjusted_df['LapNumber'] / adjusted_df['Driver'] raise KeyError on a frame
\* without these columns
RaisesKeyError(adjusted_df, segments) ==
    /\ segments # << >>
    /\ ~({"LapNumber", "Driver"} \subseteq adjusted_df.columns)

\* the results dict after the first n segments
RECURSIVE SegmentResults(_, _, _, _)
SegmentResults(adjusted_df, segments, drivers, n) ==
    IF n = 0 THEN << >>
    ELSE DictSet(SegmentResults(adjusted_df, segments, drivers, n - 1),
                 segments[n].name,
                 SortByAvg(DriverPerformance(
                     SegmentData(adjusted_df, segments[n], drivers), drivers)))

analyze_segment_performance(adjusted_df, segments, drivers) ==
    SegmentResults(adjusted_df, segments, drivers, Len(segments))

(***************************************************************************)
(* generate_performance_summary                                            *)
(***************************************************************************)
\* mutant: the position is the 0-based index
EvolutionEntryZeroBased(segment_name, results, i) ==
    [segment       |-> segment_name,
     position      |-> i - 1,
     gap_to_leader |-> FSub(results[i].avg_adjusted_time,
                            results[1].avg_adjusted_time)]

\* mutant: the gap is taken to the driver ranked just ahead
EvolutionEntryToPrevious(segment_name, results, i) ==
    [segment       |-> segment_name,
     position      |-> i,
     gap_to_leader |-> FSub(results[i].avg_adjusted_time,
                            results[IF i > 1 THEN i - 1 ELSE 1].avg_adjusted_time)]

\* one evolution entry: position i + 1 and the gap to results[0]
EvolutionEntry(segment_name, results, i) ==
    [segment       |-> segment_name,
     position      |-> i,
     gap_to_leader |-> FSub(results[i].avg_adjusted_time,
                            results[1].avg_adjusted_time)]

\* mutant: the entry goes to the front of the list
PrependEntry(entries, entry) == <<entry>> \o entries

\* mutant: the driver's list is created but the entry is not stored
DropEntry(entries, entry) == entries

\* driver_evolution[driver].append(entry)
AppendEntry(entries, entry) == Append(entries, entry)

\* driver_evolution after the first n entries of one segment's list
RECURSIVE AppendSegment(_, _, _, _)
AppendSegment(evolution, segment_name, results, n) ==
    IF n = 0 THEN evolution
    ELSE LET before == AppendSegment(evolution, segment_name, results, n - 1)
             driver == results[n].driver
             known  == IF DictHas(before, driver) THEN before
                       ELSE DictSet(before, driver, << >>)
         IN  DictSet(known, driver,
                     AppendEntry(DictGet(known, driver),
                                 EvolutionEntry(segment_name, results, n)))

\* driver_evolution after the first n segments of segment_results
RECURSIVE EvolutionUpTo(_, _)
EvolutionUpTo(segment_results, n) ==
    IF n = 0 THEN << >>
    ELSE AppendSegment(EvolutionUpTo(segment_results, n - 1),
                       segment_results[n].key, segment_results[n].value,
                       Len(segment_results[n].value))

generate_performance_summary(segment_results) ==
    EvolutionUpTo(segment_results, Len(segment_results))

(***************************************************************************)
(* print_results: the lines about segments and drivers (the header lines   *)
(* print race_info, which the analysis does not compute).                  *)
(***************************************************************************)
\* one ranked line: "REF" when gap < 0.05, the gap otherwise
SegmentLine(segment_name, results, i) ==
    LET gap == FSub(results[i].avg_adjusted_time, results[1].avg_adjusted_time)
    IN  [segment   |-> segment_name,
         rank      |-> i,
         driver    |-> results[i].driver,
         ref       |-> FLess(gap, DisplayThreshold),
         gap       |-> gap,
         lap_count |-> results[i].lap_count]

RECURSIVE SegmentLines(_, _)
SegmentLines(segment_results, n) ==
    IF n = 0 THEN << >>
    ELSE SegmentLines(segment_results, n - 1) \o
         [i \in 1..Len(segment_results[n].value) |->
             SegmentLine(segment_results[n].key, segment_results[n].value, i)]

RECURSIVE SumPositions(_, _)
SumPositions(evolution, n) ==
    IF n = 0 THEN 0 ELSE SumPositions(evolution, n - 1) + evolution[n].position

\* sum(positions) / len(positions) raises ZeroDivisionError on an empty list
RaisesZeroDivision(driver_evolution) ==
    \E i \in 1..Len(driver_evolution) : Len(driver_evolution[i].value) = 0

\* avg_position = sum(positions) / len(positions)
AveragePosition(evolution) ==
    FDivInt(FloatOfInt(SumPositions(evolution, Len(evolution))), Len(evolution))

\* how many drivers get their line printed: all of them, or those before the
\* first driver whose empty list raises
PrintedDrivers(driver_evolution) ==
    IF RaisesZeroDivision(driver_evolution)
    THEN (CHOOSE i \in 1..Len(driver_evolution) :
              /\ Len(driver_evolution[i].value) = 0
              /\ \A j \in 1..(i - 1) : Len(driver_evolution[j].value) > 0) - 1
    ELSE Len(driver_evolution)

\* the "Average P" lines printed, in the order of driver_evolution
EvolutionLines(driver_evolution) ==
    [i \in 1..PrintedDrivers(driver_evolution) |->
        [driver       |-> driver_evolution[i].key,
         avg_position |-> AveragePosition(driver_evolution[i].value)]]

(***************************************************************************)
(* Input lap tables.  The timing data is the program's input; the model    *)
(* draws it from five bounded families.                                    *)
(***************************************************************************)
MaxRows == 3
MaxSegLaps == 3

Lap(driver, number, lap_time, compound, tyre_life) ==
    [Driver |-> driver, LapNumber |-> number, LapTime |-> lap_time,
     Compound |-> compound, TyreLife |-> tyre_life]

\* lap times around both ends of the plausible window, in ms
CellLapTimes ==
    {Missing} \cup {Some(t) : t \in {79990, 80000, 95000, 200000, 200010}}
CellCompounds ==
    {Missing} \cup {Some(c) : c \in {"INTERMEDIATE", "SOFT", "MEDIUM", "HARD",
                                     "WET", "UNKNOWN"}}
CellTyreLives == {Missing, Some(0), Some(3), Some(5)}

\* (1) one lap, every combination of cells
SingleLapTables ==
    {<<Lap("NOR", 1, t, c, a)>> :
        t \in CellLapTimes, c \in CellCompounds, a \in CellTyreLives}

\* (2) up to MaxRows laps of one driver, each good or bad in one way
RowKinds ==
    << <<Some(95000),  Some("SOFT"),    Some(5)>>,
       <<Some(80000),  Some("UNKNOWN"), Some(0)>>,
       <<Some(79990),  Some("SOFT"),    Some(5)>>,
       <<Some(200010), Some("WET"),     Some(3)>>,
       <<Missing,      Some("SOFT"),    Some(5)>>,
       <<Some(95000),  Missing,         Some(5)>>,
       <<Some(95000),  Some("HARD"),    Missing>> >>

MixedTable(kinds) ==
    [i \in 1..Len(kinds) |->
        Lap("NOR", i, RowKinds[kinds[i]][1], RowKinds[kinds[i]][2],
            RowKinds[kinds[i]][3])]

MixedTables ==
    {MixedTable(kinds) :
        kinds \in UNION {[1..n -> 1..Len(RowKinds)] : n \in 0..MaxRows}}

\* the first lap of each segment
SegmentStart == <<1, 16, 35>>
\* lap time of the k-th lap of a stint (k = 0, 1, ...), before the driver's offset
BaseLapTime(k) == 90000 + 250 * k
Offsets == {0, 100, 300}

\* the laps of `drivers` in one stint starting at lap `start`, lap by lap:
\* driver i drives count[i] laps with lap times BaseLapTime(k) + offset[i]
Stint(drivers, start, count, offset, compound, tyre_life) ==
    LET n    == Len(drivers)
        grid == [i \in 1..(n * MaxSegLaps) |->
                    [k |-> (i - 1) \div n, d |-> ((i - 1) % n) + 1]]
        run  == SelectSeq(grid, LAMBDA g : g.k < count[g.d])
    IN  [i \in 1..Len(run) |->
            Lap(drivers[run[i].d], start + run[i].k,
                Some(BaseLapTime(run[i].k) + offset[run[i].d]),
                Some(compound[run[i].d]), Some(tyre_life[run[i].d] + run[i].k))]

\* (3) two tracked drivers over the three segments: one drives 0 or
\* 2..MaxSegLaps laps per segment, the other none or the minimum; an untracked
\* driver in the first segment; and laps beyond lap 49
RaceDrivers == <<"VER", "ALB", "NOR">>
LapCounts == {0} \cup ((MIN_LAPS_FOR_ANALYSIS - 1)..MaxSegLaps)
RivalLapCounts == {0, MIN_LAPS_FOR_ANALYSIS}
RaceOffsets == {100, 300}

RaceTable(ver, nor, offset) ==
    LET stint(start, v, a, n) ==
            Stint(RaceDrivers, start, <<v, a, n>>, <<100, 0, offset>>,
                  <<"INTERMEDIATE", "INTERMEDIATE", "INTERMEDIATE">>, <<1, 1, 1>>)
    IN  stint(SegmentStart[1], ver[1], MIN_LAPS_FOR_ANALYSIS, nor[1]) \o
        stint(SegmentStart[2], ver[2], 0, nor[2]) \o
        stint(SegmentStart[3], ver[3], 0, nor[3]) \o
        stint(50, 0, 0, MIN_LAPS_FOR_ANALYSIS)

RaceTables ==
    {RaceTable(ver, nor, offset) :
        ver \in [1..3 -> RivalLapCounts], nor \in [1..3 -> LapCounts],
        offset \in RaceOffsets}

\* (4) three tracked drivers in one segment, MaxSegLaps laps each, every lap
\* of the table at the same tire age; lap times differ by the driver's offset
DuelDrivers == <<"VER", "HUL", "NOR">>
DuelCompounds ==
    {<<"SOFT", "SOFT", "SOFT">>,
     <<"INTERMEDIATE", "INTERMEDIATE", "INTERMEDIATE">>,
     <<"SOFT", "INTERMEDIATE", "SOFT">>}
DuelAges == {0, 3, 5}

DuelTable(seg, offset, compound, age) ==
    LET n    == Len(DuelDrivers)
        grid == [i \in 1..(n * MaxSegLaps) |->
                    [k |-> (i - 1) \div n, d |-> ((i - 1) % n) + 1]]
    IN  [i \in 1..Len(grid) |->
            Lap(DuelDrivers[grid[i].d], SegmentStart[seg] + grid[i].k,
                Some(BaseLapTime(grid[i].k) + offset[grid[i].d]),
                Some(compound[grid[i].d]), Some(age))]

DuelTables ==
    {DuelTable(seg, offset, compound, age) :
        seg \in 1..3, offset \in [1..3 -> Offsets],
        compound \in DuelCompounds, age \in DuelAges}

\* (5) three tracked drivers on long stints in the second segment (8 laps and
\* more, where numpy's sum leaves the left-to-right order), lap times rising
\* by 137 ms a lap
LongStintLaps == {8, 11, 19}
LongStintOffsets == {<<0, 300, 100>>, <<300, 100, 100>>}

LongStintTable(count, offset, compound, age) ==
    LET n == Len(DuelDrivers)
    IN  [i \in 1..(n * count) |->
            Lap(DuelDrivers[((i - 1) % n) + 1],
                SegmentStart[2] + ((i - 1) \div n),
                Some(90000 + 137 * ((i - 1) \div n) + offset[((i - 1) % n) + 1]),
                Some(compound[((i - 1) % n) + 1]), Some(age))]

LongStintTables ==
    {LongStintTable(count, offset, compound, age) :
        count \in LongStintLaps, offset \in LongStintOffsets,
        compound \in DuelCompounds, age \in DuelAges}

InputTables ==
    SingleLapTables \cup MixedTables \cup RaceTables \cup DuelTables
        \cup LongStintTables

\* the pandas major versions the program runs on
PandasVersions == {1, 2}

(***************************************************************************)
(* The run of main() on one lap table.                                     *)
(***************************************************************************)
VARIABLES pc, pandas_version, laps, adjusted_df, segment_results,
          driver_evolution, report, error

vars == <<pc, pandas_version, laps, adjusted_df, segment_results,
          driver_evolution, report, error>>

NoReport == [segments |-> << >>, evolution |-> << >>]

Init ==
    /\ laps \in InputTables
    /\ pandas_version \in PandasVersions
    /\ pc = "loaded"
    /\ adjusted_df = [columns |-> {}, rows |-> << >>]
    /\ segment_results = << >>
    /\ driver_evolution = << >>
    /\ report = NoReport
    /\ error = "none"

\* adjusted_df = calculate_tire_adjusted_times(laps)
CalculateTireAdjustedTimes ==
    /\ pc = "loaded"
    /\ adjusted_df' = calculate_tire_adjusted_times(pandas_version, laps)
    /\ pc' = "adjusted"
    /\ UNCHANGED <<pandas_version, laps, segment_results, driver_evolution, report,
                   error>>

\* segment_results = analyze_segment_performance(adjusted_df, segments,
\* target_drivers); a KeyError ends the run
AnalyzeSegmentPerformance ==
    /\ pc = "adjusted"
    /\ IF RaisesKeyError(adjusted_df, define_race_segments)
       THEN /\ pc' = "failed"
            /\ error' = "KeyError"
            /\ UNCHANGED segment_results
       ELSE /\ pc' = "analyzed"
            /\ segment_results' =
                   analyze_segment_performance(adjusted_df, define_race_segments,
                                               target_drivers)
            /\ UNCHANGED error
    /\ UNCHANGED <<pandas_version, laps, adjusted_df, driver_evolution, report>>

\* driver_evolution = generate_performance_summary(segment_results)
GeneratePerformanceSummary ==
    /\ pc = "analyzed"
    /\ driver_evolution' = generate_performance_summary(segment_results)
    /\ pc' = "summarized"
    /\ UNCHANGED <<pandas_version, laps, adjusted_df, segment_results, report,
                   error>>

\* print_results(race_info, segment_results, driver_evolution): the segment
\* lines are printed first, then one line per driver; a ZeroDivisionError ends
\* the run after the lines printed so far
PrintResults ==
    /\ pc = "summarized"
    /\ report' = [segments  |-> SegmentLines(segment_results,
                                             Len(segment_results)),
                  evolution |-> EvolutionLines(driver_evolution)]
    /\ IF RaisesZeroDivision(driver_evolution)
       THEN /\ pc' = "failed"
            /\ error' = "ZeroDivisionError"
       ELSE /\ pc' = "done"
            /\ UNCHANGED error
    /\ UNCHANGED <<pandas_version, laps, adjusted_df, segment_results,
                   driver_evolution>>

Next ==
    \/ CalculateTireAdjustedTimes
    \/ AnalyzeSegmentPerformance
    \/ GeneratePerformanceSummary
    \/ PrintResults

Spec == Init /\ [][Next]_vars

(***************************************************************************)
(* Properties.                                                             *)
(***************************************************************************)
Adjusted   == pc # "loaded"
Analyzed   == pc \in {"analyzed", "summarized", "done"}
Summarized == pc \in {"summarized", "done"}

Rows == adjusted_df.rows
IndexOf(seq, x) == CHOOSE i \in 1..Len(seq) : seq[i] = x

\* the adjustment table as the specification lists it, 0.0 for anything else
SpecCompoundAdjustment(compound) ==
    CASE compound = "INTERMEDIATE" -> FloatOfInt(0)
      [] compound = "SOFT"         -> FNeg(FloatOfInt(8))
      [] compound = "MEDIUM"       -> FNeg(FloatOfInt(6))
      [] compound = "HARD"         -> FNeg(FloatOfInt(4))
      [] compound = "WET"          -> FloatOfInt(3)
      [] OTHER                     -> FloatOfInt(0)

\* 87.5 = 175 / 2
EightySevenAndAHalf == FDivInt(FloatOfInt(175), 2)

\* C1: every emitted record has TotalAdjustment = compound adjustment +
\* TyreLife * DEGRADATION_RATE and AdjustedTime = RawTime + that sum, with the
\* compound adjustment taken from the specification's table and 0.0 for a
\* compound outside it; a SOFT lap of tire age 5 and raw time 95.0 s gets 87.5 s.
C1_AdjustmentFormula ==
    Adjusted =>
        LET rows == Rows IN
        \A i \in 1..Len(rows) :
            LET row   == rows[i]
                total == FAdd(SpecCompoundAdjustment(row.Compound),
                              FMulInt(row.TyreAge, DEGRADATION_RATE))
            IN  /\ row.TotalAdjustment = total
                /\ row.AdjustedTime = FAdd(row.RawTime, total)
                /\ (row.Compound = "SOFT" /\ row.TyreAge = 5
                        /\ row.RawTime = FloatOfInt(95))
                       => row.AdjustedTime = EightySevenAndAHalf

\* a run that kept the SOFT / age 5 / 95.0 s lap and a lap on a compound the
\* table does not list
C1_Witness ==
    /\ pc = "adjusted"
    /\ \E i \in 1..Len(Rows) :
          /\ Rows[i].Compound = "SOFT" /\ Rows[i].TyreAge = 5
          /\ Rows[i].RawTime = FloatOfInt(95)
          /\ Rows[i].AdjustedTime = EightySevenAndAHalf
    /\ \E i \in 1..Len(Rows) :
          /\ Rows[i].Compound \notin DOMAIN TIRE_PERFORMANCE
          /\ Rows[i].AdjustedTime = Rows[i].RawTime

\* the laps the specification keeps: all three cells present and the lap time
\* within 80 s .. 200 s, both ends included (lap times are in ms)
SpecKeeps(lap) ==
    /\ notna(lap.LapTime) /\ notna(lap.Compound) /\ notna(lap.TyreLife)
    /\ 1000 * OUTLIER_THRESHOLD_MIN <= lap.LapTime[1]
    /\ lap.LapTime[1] <= 1000 * OUTLIER_THRESHOLD_MAX

SpecKeptLaps == SelectSeq(laps, SpecKeeps)

\* C2: the emitted records are exactly the laps with all three cells present
\* and 80 s <= lap time <= 200 s, in input order, each once; the step never
\* raises.
C2_FilterExact ==
    /\ pc = "adjusted" => error = "none"
    /\ Adjusted =>
          LET rows == Rows
              kept == SpecKeptLaps
          IN  /\ Len(rows) = Len(kept)
              /\ \A j \in 1..Len(rows) :
                    /\ rows[j].Driver = kept[j].Driver
                    /\ rows[j].LapNumber = kept[j].LapNumber
                    /\ rows[j].RawTime = TotalSeconds(pandas_version,
                                                     kept[j].LapTime[1])
                    /\ rows[j].Compound = kept[j].Compound[1]
                    /\ rows[j].TyreAge = kept[j].TyreLife[1]

\* three laps: the first exactly 80.0 s (kept), the second 79.99 s (dropped),
\* the third kept, so the two emitted records are laps 1 and 3 in that order
C2_Witness ==
    /\ pc = "adjusted"
    /\ Len(laps) = 3
    /\ laps[1].LapTime = Some(80000)
    /\ laps[2].LapTime = Some(79990) /\ notna(laps[2].Compound)
    /\ notna(laps[2].TyreLife)
    /\ Len(Rows) = 2
    /\ Rows[1].LapNumber = 1 /\ Rows[2].LapNumber = 3

\* the adjusted laps of one driver inside one segment's lap range
LapsIn(driver, segment) ==
    {i \in 1..Len(Rows) :
        Rows[i].Driver = driver /\ Rows[i].LapNumber \in segment.laps}

\* where a driver's records sit in the s-th segment's list
RecordsOf(s, driver) ==
    {i \in 1..Len(segment_results[s].value) :
        segment_results[s].value[i].driver = driver}

\* C3: a tracked driver has a record in a segment's list exactly when at least
\* MIN_LAPS_FOR_ANALYSIS (3) of their adjusted laps fall in the segment's
\* range; the record's lap_count is that number, never below 3.
C3_MinimumSample ==
    Analyzed =>
        /\ Len(segment_results) = Len(define_race_segments)
        /\ \A s \in 1..Len(segment_results) :
              /\ segment_results[s].key = define_race_segments[s].name
              /\ \A i \in 1..Len(segment_results[s].value) :
                    segment_results[s].value[i].lap_count >= 3
              /\ \A d \in Range(target_drivers) :
                    LET n == Cardinality(LapsIn(d, define_race_segments[s]))
                    IN  /\ (RecordsOf(s, d) # {}) <=> (n >= 3)
                        /\ \A i \in RecordsOf(s, d) :
                              segment_results[s].value[i].lap_count = n

\* in one segment a tracked driver with exactly two laps is left out while
\* another with three or more has a record
C3_Witness ==
    /\ pc = "analyzed"
    /\ \E s \in 1..Len(segment_results) :
          \E d, e \in Range(target_drivers) :
              /\ Cardinality(LapsIn(d, define_race_segments[s])) = 2
              /\ RecordsOf(s, d) = {}
              /\ RecordsOf(s, e) # {}

\* the s-th segment's ranked list
Ranked(s) == segment_results[s].value

\* the evolution entries of a driver, << >> for a driver without any
EvolutionOf(driver) ==
    IF DictHas(driver_evolution, driver) THEN DictGet(driver_evolution, driver)
    ELSE << >>

\* every evolution entry, whoever it belongs to
AllEntries ==
    UNION {Range(driver_evolution[i].value) : i \in 1..Len(driver_evolution)}

\* C4: every segment's ranked list is non-decreasing by avg_adjusted_time; the
\* gap_to_leader of an entry at position 1 is exactly 0.0 and no gap_to_leader
\* is negative.
C4_SortedAndGaps ==
    /\ Analyzed =>
          \A s \in 1..Len(segment_results) :
              \A i, j \in 1..Len(Ranked(s)) :
                  i < j => FLeq(Ranked(s)[i].avg_adjusted_time,
                                Ranked(s)[j].avg_adjusted_time)
    /\ Summarized =>
          \A entry \in AllEntries :
              /\ entry.position = 1 => entry.gap_to_leader = FloatOfInt(0)
              /\ ~entry.gap_to_leader.neg

\* a segment whose list the sort reordered (the leader comes later in
\* target_drivers than the second) and whose second entry has a positive gap
C4_Witness ==
    /\ pc = "summarized"
    /\ \E s \in 1..Len(segment_results) :
          /\ Len(Ranked(s)) >= 2
          /\ IndexOf(target_drivers, Ranked(s)[1].driver)
                > IndexOf(target_drivers, Ranked(s)[2].driver)
          /\ FLess(Ranked(s)[1].avg_adjusted_time, Ranked(s)[2].avg_adjusted_time)
          /\ \E entry \in AllEntries :
                /\ entry.segment = segment_results[s].key
                /\ entry.position = 2
                /\ FLess(FloatOfInt(0), entry.gap_to_leader)

\* the names of the segments in which a driver has a record, in segment order
QualifiedSegments(driver) ==
    LET hit == SelectSeq([s \in 1..Len(segment_results) |-> s],
                         LAMBDA s : RecordsOf(s, driver) # {})
    IN  [k \in 1..Len(hit) |-> segment_results[hit[k]].key]

\* C5: a driver's evolution sequence names exactly the segments in which the
\* driver has a record, once each, in segment-definition order; a driver with
\* records in the first and third segment only gets those two, in that order.
C5_EvolutionFollowsSegments ==
    Summarized =>
        /\ \A i, j \in 1..Len(driver_evolution) :
              driver_evolution[i].key = driver_evolution[j].key => i = j
        /\ \A i \in 1..Len(driver_evolution) :
              driver_evolution[i].key \in Range(target_drivers)
        /\ \A d \in Range(target_drivers) :
              [k \in 1..Len(EvolutionOf(d)) |-> EvolutionOf(d)[k].segment]
                  = QualifiedSegments(d)

\* a driver with records in the first and the third segment but not the second:
\* the evolution has two entries, first segment then third
C5_Witness ==
    /\ pc = "summarized"
    /\ \E d \in Range(target_drivers) :
          /\ RecordsOf(1, d) # {} /\ RecordsOf(2, d) = {} /\ RecordsOf(3, d) # {}
          /\ Len(EvolutionOf(d)) = 2
          /\ EvolutionOf(d)[1].segment = define_race_segments[1].name
          /\ EvolutionOf(d)[2].segment = define_race_segments[3].name

\* C6 (as claimed): whatever the lap table, the analysis raises no error, and a
\* segment in which no tracked driver reaches the minimum gets an empty list.
C6_NoErrorAndEmptyList ==
    /\ error = "none"
    /\ pc # "failed"
    /\ Analyzed =>
          \A s \in 1..Len(segment_results) :
              (\A d \in Range(target_drivers) :
                  Cardinality(LapsIn(d, define_race_segments[s]))
                      < MIN_LAPS_FOR_ANALYSIS)
                  => Ranked(s) = << >>

\* C7: print_results never divides by zero: every driver in driver_evolution
\* has at least one recorded position, a tracked driver without a record in
\* any segment is not in driver_evolution, and an average is printed for the
\* drivers of driver_evolution only.
C7_NoDivisionByZero ==
    /\ error # "ZeroDivisionError"
    /\ Summarized =>
          /\ \A i \in 1..Len(driver_evolution) :
                Len(driver_evolution[i].value) >= 1
          /\ \A d \in Range(target_drivers) :
                (\A s \in 1..Len(segment_results) : RecordsOf(s, d) = {})
                    => ~DictHas(driver_evolution, d)
    /\ pc = "done" =>
          /\ Len(report.evolution) = Len(driver_evolution)
          /\ \A i \in 1..Len(report.evolution) :
                report.evolution[i].driver = driver_evolution[i].key

\* the report is printed for a race in which one tracked driver has adjusted
\* laps but no record in any segment, and another has an average position
C7_Witness ==
    /\ pc = "done"
    /\ Len(report.evolution) >= 1
    /\ \E d \in Range(target_drivers) :
          /\ \E i \in 1..Len(Rows) : Rows[i].Driver = d
          /\ \A s \in 1..Len(segment_results) : RecordsOf(s, d) = {}
          /\ \A i \in 1..Len(report.evolution) : report.evolution[i].driver # d

(***************************************************************************)
(* C8: the end-to-end scenario.                                            *)
(***************************************************************************)
\* the laps of the input table a driver drove inside the s-th segment
InputLapsIn(driver, s) ==
    {i \in 1..Len(laps) :
        /\ laps[i].Driver = driver
        /\ laps[i].LapNumber \in define_race_segments[s].laps}

RankedDrivers(s) == {Ranked(s)[i].driver : i \in 1..Len(Ranked(s))}

\* the scenario's premise for the s-th segment: exactly three drivers are
\* ranked; each drove at least three laps there, all valid, one per lap
\* number; all these laps are on one compound at one tire age; and two
\* drivers' lap times differ by the same amount on every lap
ScenarioHolds(s) ==
    LET D     == RankedDrivers(s)
        all   == UNION {InputLapsIn(d, s) : d \in D}
    IN  /\ Len(Ranked(s)) = 3
        /\ \A d \in D : Cardinality(InputLapsIn(d, s)) >= 3
        /\ \A i \in all : SpecKeeps(laps[i])
        /\ \A i, j \in all :
              /\ laps[i].Compound = laps[j].Compound
              /\ laps[i].TyreLife = laps[j].TyreLife
              /\ (i # j /\ laps[i].Driver = laps[j].Driver)
                     => laps[i].LapNumber # laps[j].LapNumber
        /\ \A d, e \in D :
              /\ {laps[i].LapNumber : i \in InputLapsIn(d, s)}
                    = {laps[j].LapNumber : j \in InputLapsIn(e, s)}
              /\ \A i, k \in InputLapsIn(d, s) :
                    \A j, l \in InputLapsIn(e, s) :
                        (laps[i].LapNumber = laps[j].LapNumber
                            /\ laps[k].LapNumber = laps[l].LapNumber)
                        => laps[i].LapTime[1] - laps[j].LapTime[1]
                             = laps[k].LapTime[1] - laps[l].LapTime[1]

\* pairs (lap of d, lap of e) on the same lap number of the s-th segment
SameLap(d, e, s) ==
    {p \in InputLapsIn(d, s) \X InputLapsIn(e, s) :
        laps[p[1]].LapNumber = laps[p[2]].LapNumber}

\* by how many ms driver d is slower than driver e (the same on every lap)
RawOffset(d, e, s) ==
    LET p == CHOOSE p \in SameLap(d, e, s) : TRUE
    IN  laps[p[1]].LapTime[1] - laps[p[2]].LapTime[1]

\* the gap_to_leader reported for a driver in the s-th segment
ReportedGap(d, s) ==
    LET ev == EvolutionOf(d)
        k  == CHOOSE k \in 1..Len(ev) : ev[k].segment = segment_results[s].key
    IN  ev[k].gap_to_leader

\* gaps are compared in units of 2^-GapUnitBits s, which hold every gap
\* exactly: a gap is a difference of two means between 64 s and 256 s, a
\* multiple of 2^-46 s below 2^8 s
GapUnitBits == 5 * LimbBits

\* | gap - ms / 1000 | <= 2^-30 s (less than a nanosecond), for 0 <= ms < 2^20:
\* compared after scaling both by 1000 * 2^GapUnitBits
WithinRounding(gap, ms) ==
    LET a == BMulSmall(BShl(Widen(gap.mant), gap.exp + GapUnitBits), 1000)
        b == <<0, 0, 0, 0, 0, ms>>
        d == IF BLess(a, b) THEN BSub(b, a) ELSE BSub(a, b)
    IN  /\ ~gap.neg
        /\ IsZero(gap) \/ (gap.exp >= -GapUnitBits /\ gap.exp <= -44)
        /\ ~BLess(BMulSmall(BShl(BOne, GapUnitBits - 30), 1000), d)

\* the float nearest to ms / 1000 s
NearestSeconds(ms) == FDivInt(FloatOfInt(ms), 1000)

\* the mean of the raw times of a driver's adjusted laps in the s-th segment
MeanRaw(d, s) ==
    LET rows == SelectSeq(Rows, LAMBDA row :
                    row.Driver = d /\ row.LapNumber \in define_race_segments[s].laps)
    IN  SeriesMean([i \in 1..Len(rows) |-> rows[i].RawTime])

\* what "the raw-time difference" of d to the leader e can mean as a float:
\* the difference of the two RawTime values on some lap, the difference of
\* the two drivers' mean raw times, or the float nearest to the exact
\* difference
RawDifferences(d, e, s) ==
    {FSub(TotalSeconds(pandas_version, laps[p[1]].LapTime[1]),
          TotalSeconds(pandas_version, laps[p[2]].LapTime[1])) :
        p \in SameLap(d, e, s)}
    \cup {FSub(MeanRaw(d, s), MeanRaw(e, s)),
          NearestSeconds(RawOffset(d, e, s))}

\* C8 (as claimed): in the scenario the ranked list is ordered by raw time and
\* every gap_to_leader equals the raw-time difference to the fastest driver
\* exactly.
C8_GapsExact ==
    Summarized =>
        \A s \in 1..Len(segment_results) :
            ScenarioHolds(s) =>
                \A i \in 1..Len(Ranked(s)) :
                    /\ i > 1 => RawOffset(Ranked(s)[i].driver,
                                          Ranked(s)[i - 1].driver, s) >= 0
                    /\ ReportedGap(Ranked(s)[i].driver, s)
                          \in RawDifferences(Ranked(s)[i].driver,
                                             Ranked(s)[1].driver, s)

\* C8 (amended): in the scenario the ranked list is ordered by raw time and
\* every gap_to_leader equals the raw-time difference to the fastest driver up
\* to floating-point rounding: the two differ by less than a nanosecond.
C8_GapsWithinRounding ==
    Summarized =>
        \A s \in 1..Len(segment_results) :
            ScenarioHolds(s) =>
                \A i \in 1..Len(Ranked(s)) :
                    /\ i > 1 => RawOffset(Ranked(s)[i].driver,
                                          Ranked(s)[i - 1].driver, s) >= 0
                    /\ RawOffset(Ranked(s)[i].driver, Ranked(s)[1].driver, s) >= 0
                    /\ WithinRounding(
                           ReportedGap(Ranked(s)[i].driver, s),
                           RawOffset(Ranked(s)[i].driver, Ranked(s)[1].driver, s))

\* the scenario with three different raw paces on worn SOFT tires, ranked
\* against the order of target_drivers
C8_Witness ==
    /\ pc = "summarized"
    /\ \E s \in 1..Len(segment_results) :
          /\ ScenarioHolds(s)
          /\ RawOffset(Ranked(s)[2].driver, Ranked(s)[1].driver, s) > 0
          /\ RawOffset(Ranked(s)[3].driver, Ranked(s)[2].driver, s) > 0
          /\ IndexOf(target_drivers, Ranked(s)[1].driver)
                > IndexOf(target_drivers, Ranked(s)[2].driver)
          /\ \A i \in InputLapsIn(Ranked(s)[1].driver, s) :
                laps[i].Compound = Some("SOFT") /\ laps[i].TyreLife = Some(3)

\* C9: two drivers of one ranked list with equal avg_adjusted_time stand in the
\* order of target_drivers.
C9_TiesKeepDriverOrder ==
    Analyzed =>
        \A s \in 1..Len(segment_results) :
            \A i, j \in 1..Len(Ranked(s)) :
                (i < j /\ Ranked(s)[i].avg_adjusted_time
                            = Ranked(s)[j].avg_adjusted_time)
                    => IndexOf(target_drivers, Ranked(s)[i].driver)
                          < IndexOf(target_drivers, Ranked(s)[j].driver)

\* a list the sort reordered (its leader is the last of the three in
\* target_drivers) in which the second and third are tied
C9_Witness ==
    /\ pc = "analyzed"
    /\ \E s \in 1..Len(segment_results) :
          /\ Len(Ranked(s)) = 3
          /\ IndexOf(target_drivers, Ranked(s)[1].driver)
                > IndexOf(target_drivers, Ranked(s)[3].driver)
          /\ FLess(Ranked(s)[1].avg_adjusted_time, Ranked(s)[2].avg_adjusted_time)
          /\ Ranked(s)[2].avg_adjusted_time = Ranked(s)[3].avg_adjusted_time

\* the evolution entries that name the s-th segment
EntriesOf(s) == {entry \in AllEntries : entry.segment = segment_results[s].key}

\* C10: in every ranked list each driver appears at most once and is a tracked
\* driver; the positions handed out within a segment are exactly 1..n for its n
\* ranked drivers, one per driver; an evolution sequence has at most 3 entries
\* and every position lies in 1..len(target_drivers).
C10_PositionsDense ==
    /\ Analyzed =>
          \A s \in 1..Len(segment_results) :
              /\ \A i, j \in 1..Len(Ranked(s)) :
                    Ranked(s)[i].driver = Ranked(s)[j].driver => i = j
              /\ RankedDrivers(s) \subseteq Range(target_drivers)
    /\ Summarized =>
          /\ \A s \in 1..Len(segment_results) :
                /\ {entry.position : entry \in EntriesOf(s)} = 1..Len(Ranked(s))
                /\ \A i \in 1..Len(Ranked(s)) :
                      \E k \in 1..Len(EvolutionOf(Ranked(s)[i].driver)) :
                          LET entry == EvolutionOf(Ranked(s)[i].driver)[k]
                          IN  /\ entry.segment = segment_results[s].key
                              /\ entry.position = i
                /\ \A d \in Range(target_drivers) :
                      Cardinality({k \in 1..Len(EvolutionOf(d)) :
                          EvolutionOf(d)[k].segment = segment_results[s].key}) <= 1
          /\ \A i \in 1..Len(driver_evolution) :
                /\ Len(driver_evolution[i].value) <= Len(define_race_segments)
                /\ \A k \in 1..Len(driver_evolution[i].value) :
                      driver_evolution[i].value[k].position
                          \in 1..Len(target_drivers)

\* a segment with three ranked drivers, who hold the positions 1, 2 and 3
C10_Witness ==
    /\ pc = "summarized"
    /\ \E s \in 1..Len(segment_results) :
          /\ Len(Ranked(s)) = 3
          /\ {entry.position : entry \in EntriesOf(s)} = {1, 2, 3}
          /\ Cardinality(RankedDrivers(s)) = 3

=============================================================================
